---- MODULE Spec2Model ----
(***************************************************************************)
(* A model of ncmdump.rs: the position-keyed XOR decoder for the qmc       *)
(* container (crates/ncmdump/src/qmcdump.rs), the format sniffer and the   *)
(* single-threaded front end (src/main.rs), and the per-item dump of the   *)
(* worker front end (crates/ncmdump-bin/src/main.rs).                      *)
(*                                                                         *)
(* The module holds several specifications over one set of variables:      *)
(*   SpecEnc   the pure functions map_l and encrypt applied to drawn       *)
(*             offsets and buffers;                                        *)
(*   SpecQmc   a QmcDump over an in-memory reader: read and seek;          *)
(*   SpecCli   one input file taken through the single-threaded front end  *)
(*             (Wrapper::from_path, get_info, dump) and through            *)
(*             Program::dump / dump_data of the worker front end.          *)
(* The variables a specification does not use keep their idle values.      *)
(***************************************************************************)
EXTENDS Integers, Sequences, FiniteSets, Bags, TLC

VARIABLES
  \* SpecEnc: one call site of the pure functions
  eOffset,    \* the offset argument
  eOrig,      \* the buffer as first passed in
  eBuffer,    \* the buffer now (encrypt works in place)
  eCalls,     \* how many times encrypt(eOffset, .) has been applied to it
  eKey,       \* the value map_l(eOffset) returned, -1 before the call
  \* SpecQmc: QmcDump { reader, cursor } and its caller
  rPat,       \* reader: the stream's bytes; byte p is rPat[(p % Len(rPat)) + 1]
  rLen,       \* reader: the stream's length
  rPos,       \* reader: its absolute position
  cursor,     \* QmcDump.cursor
  buf,        \* the caller's buffer after the last read
  ret,        \* the last call and what it returned
  start,      \* where the decoder was last positioned: 0, or the last seek's result
  output,     \* the bytes the reads have returned since then, in order
  nOps,       \* calls made so far
  \* SpecCli: one input file taken through a front end
  prog,       \* "cli": src/main.rs; "bin": crates/ncmdump-bin/src/main.rs
  verbose,    \* command.verbose
  force,      \* command.force (bin)
  others,     \* cli: get_info kept other items beside this one
  item,       \* the input file: its bytes and, for an ncm container, what
              \* the container decoder makes of it
  fs0,        \* the output paths of the item's stem, by extension, at start
  fs,         \* the same paths now
  opened,     \* the output paths this run has opened for writing
  pc,         \* where the front end is
  head,       \* from_path: the 8-byte head buffer
  headN,      \* from_path: how many bytes the read returned
  format,     \* Wrapper.format / provider.get_format(), "None" before
  kept,       \* cli: get_info pushed the item
  decoder,    \* the decoder the opened source was wrapped in, "none" before
  dpos,       \* the decoder's reader: its position
  dcur,       \* QmcDump.cursor of the decoder
  extBuf,     \* bin: ext_buffer
  ext,        \* the extension the magic check chose, "none" before
  data,       \* the decoded bytes collected so far
  total,      \* bin: self.total's position
  result,     \* what the item's processing returned, and the run with it
  log,        \* lines printed about the item
  \* SpecPipe: Program::start, its producer thread and its worker threads
  worker,     \* command.worker
  matchers,   \* command.matchers, each with what glob finds for it
  main,       \* where start is
  joined,     \* how many of tasks start has joined
  run,        \* what start returned, "none" before
  producer,   \* the producer thread: position, local len, return value
  length,     \* total.length(): expected total bytes
  position,   \* total.position(): bytes completed
  queue,      \* the channel: numbers of the messages sent and not received
  published,  \* every FileProvider sent, in order; message k is published[k]
  taken,      \* every message a recv has returned, in order
  workers,    \* the worker threads, a bag of their states: position, message
              \* in hand, what exists() said, return value
  outputs,    \* the output paths, by name: whether there, and whose bytes
  clobbered,  \* the paths an open has truncated while they were there
  warnings,   \* the [Warning] lines printed
  \* SpecPath: the output path computed for one item
  pathProg,   \* "bin": dump_data; "cli": NcmdumpCli::dump and get_output
  inPath,     \* the input file's path: its directory and its name's parts
  cmdOutput,  \* command.output: "None" or the directory given
  viaDecoder, \* the decoder the source is read through
  rawHead,    \* the first 4 bytes behind the decoder
  targetPath  \* what the computation returned ("none" before) and the path

encVars == <<eOffset, eOrig, eBuffer, eCalls, eKey>>
qmcVars == <<rPat, rLen, rPos, cursor, buf, ret, start, output, nOps>>
cliVars ==
  <<prog, verbose, force, others, item, fs0, fs, opened, pc, head, headN, format,
    kept, decoder, dpos, dcur, extBuf, ext, data, total, result, log>>
pipeVars ==
  <<worker, matchers, main, joined, run, producer, length, position, queue,
    published, taken, workers, outputs, clobbered, warnings>>
pathVars == <<pathProg, inPath, cmdOutput, viaDecoder, rawHead, targetPath>>
vars == <<encVars, qmcVars, cliVars, pipeVars, pathVars>>

----------------------------------------------------------------------------
(* Bounds of the model. *)

\* longest buffer / short stream drawn over the sample bytes
MaxLen == 3
\* how many times encrypt is applied to one buffer
MaxCalls == 2
\* longest caller buffer handed to read
MaxBuf == 4
\* read and seek calls per decoder
MaxOps == 4
\* longest short stream drawn over the sample bytes
MaxStream == 2

----------------------------------------------------------------------------
(* Bytes. *)

Min(a, b) == IF a < b THEN a ELSE b

\* u8 ^ u8, bit by bit
RECURSIVE Xor(_, _)
Xor(a, b) ==
  IF a = 0 THEN b
  ELSE IF b = 0 THEN a
  ELSE (((a % 2) + (b % 2)) % 2) + 2 * Xor(a \div 2, b \div 2)

\* all sequences over S of length 0..n
SeqsUpTo(S, n) == UNION { [1..k -> S] : k \in 0..n }

----------------------------------------------------------------------------
(* crates/ncmdump/src/qmcdump.rs: the key table and the pure functions. *)

KEY ==
  << 119, 72, 50, 115, 222, 242, 192, 200, 149, 236, 48, 178, 81, 195, 225, 160,
     158, 230, 157, 207, 250, 127, 20, 209, 206, 184, 220, 195, 74, 103, 147, 214,
     40, 194, 145, 112, 202, 141, 162, 164, 240, 8, 97, 144, 126, 111, 162, 224,
     235, 174, 62, 182, 103, 199, 146, 244, 145, 181, 246, 108, 94, 132, 64, 247,
     243, 27, 2, 127, 213, 171, 65, 137, 40, 244, 37, 204, 82, 17, 173, 67,
     104, 166, 65, 139, 132, 181, 255, 44, 146, 74, 38, 216, 71, 106, 124, 149,
     97, 204, 230, 203, 187, 63, 71, 88, 137, 117, 195, 117, 161, 217, 175, 204,
     8, 115, 23, 220, 170, 154, 162, 22, 65, 216, 162, 6, 198, 139, 252, 102,
     52, 159, 207, 24, 35, 160, 10, 116, 231, 43, 39, 112, 146, 233, 175, 55,
     230, 140, 167, 188, 98, 101, 156, 194, 8, 201, 136, 179, 243, 67, 172, 116,
     44, 15, 212, 175, 161, 195, 1, 100, 149, 78, 72, 159, 244, 53, 120, 149,
     122, 57, 214, 106, 160, 109, 64, 232, 79, 168, 239, 17, 29, 243, 27, 63,
     63, 7, 221, 111, 91, 25, 48, 25, 251, 239, 14, 55, 240, 14, 205, 22,
     73, 254, 83, 71, 19, 26, 189, 164, 241, 64, 25, 96, 14, 237, 104, 9,
     6, 95, 77, 207, 61, 26, 254, 32, 119, 228, 217, 218, 249, 164, 43, 118,
     28, 113, 219, 0, 188, 253, 12, 108, 165, 71, 247, 246, 0, 121, 74, 17 >>

\* the fold point of map_l: offsets above it are reduced modulo it
Fold == 32767
\* the additive term of the table index
IndexBase == 80923

MapLFoldAtMutant(value) ==
  LET v == IF value >= Fold THEN value % Fold ELSE value
  IN  KEY[((v * v + IndexBase) % 256) + 1]

\* the table index map_l computes (0-based, as in the source)
MapIndex(value) ==
  LET v == IF value > Fold THEN value % Fold ELSE value
  IN  (v * v + IndexBase) % 256

map_l(value) == KEY[MapIndex(value) + 1]

EncryptNoIndexMutant(offset, buffer) ==
  [i \in 1..Len(buffer) |-> Xor(buffer[i], map_l(offset))]

EncryptAddMutant(offset, buffer) ==
  [i \in 1..Len(buffer) |-> (buffer[i] + map_l(offset + (i - 1))) % 256]

EncryptOffByOneMutant(offset, buffer) ==
  [i \in 1..Len(buffer) |-> Xor(buffer[i], map_l(offset + i))]

\* encrypt works in place over the whole slice; the result is the slice after
encrypt(offset, buffer) ==
  [i \in 1..Len(buffer) |-> Xor(buffer[i], map_l(offset + (i - 1)))]

----------------------------------------------------------------------------
(* SpecEnc: map_l and encrypt as the unit tests call them. *)

\* sample byte values for drawn buffers
SampleBytes == {0, 1, 255}

\* the buffers of the unit tests
TestBuffers == { <<0, 1, 2, 3>>, <<165, 6, 183, 137>>, <<138, 14, 229>> }

Buffers == SeqsUpTo(SampleBytes, MaxLen) \cup TestBuffers

\* offsets around 0, the unit tests' offsets, and both sides of every fold
Offsets ==
  {0, 1, 2, 153, 36863}
    \cup ((Fold - 4)..(Fold + 4))
    \cup ((2 * Fold - 4)..(2 * Fold + 2))

EncIdle ==
  /\ eOffset = 0
  /\ eOrig = <<>>
  /\ eBuffer = <<>>
  /\ eCalls = 0
  /\ eKey = -1

QmcIdle ==
  /\ rPat = <<0>>
  /\ rLen = 0
  /\ rPos = 0
  /\ cursor = 0
  /\ buf = <<>>
  /\ ret = [op |-> "new", ok |-> TRUE, val |-> 0]
  /\ start = 0
  /\ output = <<>>
  /\ nOps = 0

NoFile == [exists |-> FALSE, data |-> <<>>]

NoResult == [ret |-> "none", err |-> "none"]

CliIdle ==
  /\ prog = "none"
  /\ verbose = FALSE
  /\ force = FALSE
  /\ others = FALSE
  /\ item = [bytes |-> <<>>, payload |-> <<>>, ncmOk |-> FALSE, tagOk |-> FALSE]
  /\ fs0 = [e \in {"flac", "mp3"} |-> NoFile]
  /\ fs = fs0
  /\ opened = {}
  /\ pc = "idle"
  /\ head = <<>>
  /\ headN = 0
  /\ format = "None"
  /\ kept = FALSE
  /\ decoder = "none"
  /\ dpos = 0
  /\ dcur = 0
  /\ extBuf = <<>>
  /\ ext = "none"
  /\ data = <<>>
  /\ total = 0
  /\ result = NoResult
  /\ log = <<>>

PipeIdle ==
  /\ worker = 0
  /\ matchers = <<>>
  /\ main = "idle"
  /\ joined = 0
  /\ run = "none"
  /\ producer = [pc |-> "idle", i |-> 0, len |-> 0, ret |-> "none"]
  /\ length = 0
  /\ position = 0
  /\ queue = <<>>
  /\ published = <<>>
  /\ taken = <<>>
  /\ workers = EmptyBag
  /\ outputs = <<>>
  /\ clobbered = {}
  /\ warnings = <<>>

PathIdle ==
  /\ pathProg = "none"
  /\ inPath = [dir |-> "", name |-> <<>>]
  /\ cmdOutput = "None"
  /\ viaDecoder = "none"
  /\ rawHead = <<>>
  /\ targetPath = [ret |-> "none", path |-> [dir |-> "", name |-> <<>>]]

InitEnc ==
  /\ eOffset \in Offsets
  /\ eOrig \in Buffers
  /\ eBuffer = eOrig
  /\ eCalls = 0
  /\ eKey = -1
  /\ QmcIdle
  /\ CliIdle
  /\ PipeIdle
  /\ PathIdle

\* let dest = QmcDump::map_l(offset)
CallMapL ==
  /\ eKey = -1
  /\ eKey' = map_l(eOffset)
  /\ UNCHANGED <<eOffset, eOrig, eBuffer, eCalls, qmcVars, cliVars, pipeVars, pathVars>>

\* QmcDump::encrypt(offset, &mut data)
CallEncrypt ==
  /\ eCalls < MaxCalls
  /\ eBuffer' = encrypt(eOffset, eBuffer)
  /\ eCalls' = eCalls + 1
  /\ UNCHANGED <<eOffset, eOrig, eKey, qmcVars, cliVars, pipeVars, pathVars>>

NextEnc == CallMapL \/ CallEncrypt

SpecEnc == InitEnc /\ [][NextEnc]_vars

----------------------------------------------------------------------------
(* SpecEnc: the claims about the pure functions. *)

\* the reference formula of the key byte
KeyByteRef(offset) ==
  LET L == IF offset <= 32767 THEN offset ELSE offset % 32767
  IN  KEY[((L * L + 80923) % 256) + 1]

\* C1: applying encrypt(o, .) twice to a buffer yields the buffer again.
C1_Involution == (eCalls % 2 = 0) => eBuffer = eOrig

C1_Witness ==
  /\ eCalls = 2
  /\ eOffset = Fold - 1
  /\ eOrig = <<0, 1, 2, 3>>
  /\ eBuffer = eOrig

\* C3: map_l equals the reference formula at every offset, its table index
\* is in 0..255, and map_l(0x99) = 146, map_l(0x8FFF) = 195.
C3_MapL ==
  /\ MapIndex(eOffset) \in 0..255
  /\ eKey # -1 =>
       /\ eKey = KeyByteRef(eOffset)
       /\ eOffset = 153 => eKey = 146
       /\ eOffset = 36863 => eKey = 195

C3_Witness == eOffset = 36863 /\ eKey = 195

\* C4: one call of encrypt XORs byte i with the key byte of offset + i and
\* keeps the length, also across the fold; encrypt(0, [0,1,2,3]) and
\* encrypt(0x7FFF, [0,1,2,3]) are the known values.
C4_Encrypt ==
  eCalls = 1 =>
    /\ Len(eBuffer) = Len(eOrig)
    /\ \A i \in 1..Len(eOrig) :
         eBuffer[i] = Xor(eOrig[i], KeyByteRef(eOffset + i - 1))
    /\ (eOffset = 0 /\ eOrig = <<0, 1, 2, 3>>) => eBuffer = <<195, 75, 212, 201>>
    /\ (eOffset = 32767 /\ eOrig = <<0, 1, 2, 3>>) => eBuffer = <<74, 75, 212, 201>>

C4_Witness ==
  /\ eCalls = 1
  /\ eOffset = 32767
  /\ eOrig = <<0, 1, 2, 3>>
  /\ eBuffer = <<74, 75, 212, 201>>

\* C5: at offset 0 the two qmc magic prefixes decode to fLaC and to ID3.
C5_MagicRecovery ==
  (eCalls = 1 /\ eOffset = 0) =>
    /\ eOrig = <<165, 6, 183, 137>> => eBuffer = <<102, 76, 97, 67>>
    /\ eOrig = <<138, 14, 229>> => eBuffer = <<73, 68, 51>>

C5_Witness ==
  /\ eCalls = 1
  /\ eOffset = 0
  /\ eOrig = <<138, 14, 229>>
  /\ eBuffer = <<73, 68, 51>>

----------------------------------------------------------------------------
(* SpecQmc: a QmcDump over a reader that starts at offset 0. *)

\* the stream behind the reader is long enough to hold both folds
LongLen == 2 * Fold + 8

\* byte p of the stream
InputByte(p) == rPat[(p % Len(rPat)) + 1]

ShortStreams == SeqsUpTo({0, 255}, MaxStream) \cup TestBuffers

LongPatterns == { <<0, 1, 2, 3>>, <<255>> }

QmcStreams ==
  { [pat |-> IF b = <<>> THEN <<0>> ELSE b, len |-> Len(b)] : b \in ShortStreams }
    \cup { [pat |-> p, len |-> LongLen] : p \in LongPatterns }

\* SeekFrom values the caller passes
SeekArgs ==
  { [whence |-> "Start", n |-> n] : n \in {0, Fold - 1, 2 * Fold - 2} }
    \cup { [whence |-> "Current", n |-> n] : n \in {-1} }
    \cup { [whence |-> "End", n |-> n] : n \in {-1, 1} }

\* the position a seek asks the reader for
SeekTarget(pos) ==
  CASE pos.whence = "Start" -> pos.n
    [] pos.whence = "Current" -> rPos + pos.n
    [] pos.whence = "End" -> rLen + pos.n

\* the sizes the reader may return for a buffer of m bytes: 0 only for an
\* empty buffer or at end of stream, otherwise anything up to what is left
ReaderSizes(m) ==
  IF m = 0 \/ rPos >= rLen THEN {0} ELSE 1..Min(m, rLen - rPos)

ReadEncryptAnchorMutant(cur, b) == encrypt(0, b)

\* Self::encrypt(self.cursor, buf)
ReadEncrypt(cur, b) == encrypt(cur, b)

ReadCursorMutant(cur, size, m) == cur + m

\* self.cursor += size as u64
ReadCursor(cur, size, m) == cur + size

SeekCursorMutant(cur, p) == cur

SeekCursorRelativeMutant(cur, p) == cur + p

\* self.cursor = self.reader.seek(pos)?
SeekCursor(cur, p) == p

InitQmc ==
  /\ \E s \in QmcStreams : rPat = s.pat /\ rLen = s.len
  /\ rPos = 0
  /\ cursor = 0
  /\ buf \in { [i \in 1..m |-> 0] : m \in 0..MaxBuf }
  /\ ret = [op |-> "new", ok |-> TRUE, val |-> 0]
  /\ start = 0
  /\ output = <<>>
  /\ nOps = 0
  /\ EncIdle
  /\ CliIdle
  /\ PipeIdle
  /\ PathIdle

\* Read for QmcDump::read(buf), the reader returning Ok(n)
Read ==
  /\ nOps < MaxOps
  /\ \E n \in ReaderSizes(Len(buf)) :
       LET filled == [i \in 1..Len(buf) |->
                        IF i <= n THEN InputByte(rPos + i - 1) ELSE buf[i]]
           after == ReadEncrypt(cursor, filled)
       IN  /\ buf' = after
           /\ cursor' = ReadCursor(cursor, n, Len(buf))
           /\ rPos' = rPos + n
           /\ ret' = [op |-> "read", ok |-> TRUE, val |-> n]
           /\ output' = output \o SubSeq(after, 1, n)
  /\ nOps' = nOps + 1
  /\ UNCHANGED <<rPat, rLen, start, encVars, cliVars, pipeVars, pathVars>>

ReadFailAdvanceMutant ==
  /\ nOps < MaxOps
  /\ cursor' = cursor + Len(buf)
  /\ ret' = [op |-> "read", ok |-> FALSE, val |-> 0]
  /\ nOps' = nOps + 1
  /\ UNCHANGED <<rPat, rLen, rPos, buf, start, output, encVars, cliVars, pipeVars, pathVars>>

\* Read for QmcDump::read(buf), the reader returning Err: `?` returns it
ReadFail ==
  /\ nOps < MaxOps
  /\ ret' = [op |-> "read", ok |-> FALSE, val |-> 0]
  /\ nOps' = nOps + 1
  /\ UNCHANGED <<rPat, rLen, rPos, cursor, buf, start, output, encVars, cliVars, pipeVars, pathVars>>

\* Seek for QmcDump::seek(pos); a negative target is the reader's error
Seek ==
  /\ nOps < MaxOps
  /\ \E pos \in SeekArgs :
       LET p == SeekTarget(pos)
       IN  IF p < 0
           THEN /\ ret' = [op |-> "seek", ok |-> FALSE, val |-> 0]
                /\ UNCHANGED <<rPos, cursor, start, output>>
           ELSE /\ rPos' = p
                /\ cursor' = SeekCursor(cursor, p)
                /\ ret' = [op |-> "seek", ok |-> TRUE, val |-> cursor']
                /\ start' = p
                /\ output' = <<>>
  /\ nOps' = nOps + 1
  /\ UNCHANGED <<rPat, rLen, buf, encVars, cliVars, pipeVars, pathVars>>

NextQmc == Read \/ ReadFail \/ Seek

SpecQmc == InitQmc /\ [][NextQmc]_vars

----------------------------------------------------------------------------
(* SpecQmc: the claims about read and seek. *)

\* the stream's bytes from position p, n of them
StreamSlice(p, n) == [i \in 1..n |-> InputByte(p + i - 1)]

\* a read of a non-empty buffer returned 0: the end of the stream was seen
SawEnd == ret.op = "read" /\ ret.ok /\ ret.val = 0 /\ Len(buf) > 0

\* C2: however the stream is split into reads (short reads included), the
\* bytes returned, in order, are encrypt of the stream in one call, anchored
\* where the decoder was positioned (0 for a fresh decoder); and for every
\* split point k the two calls anchored at 0 and at k give the same bytes.
C2_Chunking ==
  LET consumed == StreamSlice(start, Len(output))
      whole == encrypt(start, consumed)
  IN  /\ output = whole
      /\ (SawEnd /\ start <= rLen) => output = encrypt(start, StreamSlice(start, rLen - start))
      /\ \A k \in 0..Len(consumed) :
           SubSeq(whole, 1, k)
             \o encrypt(start + k, SubSeq(consumed, k + 1, Len(consumed))) = whole

C2_Witness ==
  /\ rPat = <<0, 1, 2, 3>>
  /\ rLen = 4
  /\ nOps = 3
  /\ Len(buf) = 2
  /\ SawEnd
  /\ start = 0
  /\ output = <<195, 75, 212, 201>>

\* a step that is a successful read
ReadStep == nOps' = nOps + 1 /\ ret'.op = "read" /\ ret'.ok

\* a step that is a successful seek
SeekStep == nOps' = nOps + 1 /\ ret'.op = "seek" /\ ret'.ok

\* C6: a read returning n advances the cursor by exactly n, its n bytes are
\* the reader's bytes XORed with the key bytes anchored at the cursor held
\* before the read, and from a fresh decoder the cursor is the sum of the
\* sizes returned.
C6_ReadContract ==
  /\ [](start = 0 => cursor = Len(output))
  /\ [][ReadStep =>
          /\ cursor' = cursor + ret'.val
          /\ \A i \in 1..ret'.val :
               buf'[i] = Xor(InputByte(rPos + i - 1), map_l(cursor + i - 1))]_vars

C6_Witness ==
  /\ rPat = <<0, 1, 2, 3>>
  /\ nOps = 1
  /\ ret = [op |-> "read", ok |-> TRUE, val |-> 4]
  /\ buf = <<195, 75, 212, 201>>
  /\ cursor = 4

\* C7: a successful seek sets the cursor to the reader's resulting absolute
\* offset p and returns p, and the next read returns the stream from p on
\* XORed with map_l(p), map_l(p + 1), ..., whatever calls came before.
C7_SeekContract ==
  /\ [][SeekStep => (cursor' = rPos' /\ ret'.val = rPos')]_vars
  /\ [][(ret.op = "seek" /\ ret.ok /\ ReadStep) =>
          \A i \in 1..ret'.val :
            buf'[i] = Xor(InputByte(ret.val + i - 1), map_l(ret.val + i - 1))]_vars

C7_Witness ==
  /\ nOps = 3
  /\ start = Fold - 1
  /\ ret = [op |-> "read", ok |-> TRUE, val |-> 3]
  /\ cursor = Fold + 2
  /\ rPat = <<0, 1, 2, 3>>
  /\ SubSeq(buf, 1, 3) = <<Xor(2, map_l(Fold - 1)), Xor(3, map_l(Fold)), Xor(0, map_l(Fold + 1))>>

----------------------------------------------------------------------------
(* The front ends: magics, the sniffer, the input files. *)

NcmMagic == <<67, 84, 69, 78, 70, 68, 65, 77>>
QmcFlacMagic == <<165, 6, 183, 137>>
QmcMp3Magic == <<138, 14, 229>>
FlacMagic == <<102, 76, 97, 67>>
Id3Magic == <<73, 68, 51>>

Exts == {"flac", "mp3"}

\* let mut buffer = [0; 1024] of dump_data and of get_data
DumpBufferSize == 1024

\* the buffer [0; 8] after a read that returned n bytes of the file
HeadBuffer(bytes, n) == [i \in 1..8 |-> IF i <= n THEN bytes[i] ELSE 0]

SniffIgnoreSizeMutant(h, n) ==
  IF h = NcmMagic THEN "Ncm"
  ELSE IF SubSeq(h, 1, 4) = QmcFlacMagic THEN "Qmc"
  ELSE IF SubSeq(h, 1, 3) = QmcMp3Magic THEN "Qmc"
  ELSE "Other"

\* Wrapper::from_path: the format for head h when the read returned n
Sniff(h, n) ==
  IF n = 8
  THEN IF h = NcmMagic THEN "Ncm"
       ELSE IF SubSeq(h, 1, 4) = QmcFlacMagic THEN "Qmc"
       ELSE IF SubSeq(h, 1, 3) = QmcMp3Magic THEN "Qmc"
       ELSE "Other"
  ELSE "Other"

\* the match on the first four decoded bytes
MagicExt(b) ==
  IF b = FlacMagic THEN "flac"
  ELSE IF SubSeq(b, 1, 3) = Id3Magic THEN "mp3"
  ELSE "none"

\* the format the producer's FileProvider gives an item: the sniffer over
\* the file's first 8 bytes
ProviderFormat(it) ==
  LET n == Min(8, Len(it.bytes))
  IN  Sniff(HeadBuffer(it.bytes, n), n)

\* what the tag writer makes of the collected bytes: an ID3v2.4 header first
Tagged(d) == <<73, 68, 51, 4>> \o d

\* File::options().create(true).write(true) without truncate, then write_all
Overwrite(old, new) == new \o SubSeq(old, Len(new) + 1, Len(old))

HeadBases == { NcmMagic, QmcFlacMagic \o <<0, 0, 0, 0>>, QmcMp3Magic \o <<0, 0, 0, 0, 0>> }

\* every head, every head cut short, every head with one byte changed, and
\* two qmc files longer than their head
FileBytes ==
  HeadBases
    \cup { SubSeq(b, 1, k) : b \in HeadBases, k \in 0..7 }
    \cup { [b EXCEPT ![i] = (b[i] + 1) % 256] : b \in HeadBases, i \in 1..8 }
    \cup { QmcFlacMagic \o <<1, 2, 3, 4, 5>>, QmcMp3Magic \o <<3, 4, 5, 6, 7, 8>> }

\* what the container decoder yields for an ncm file: nothing, three bytes,
\* either codec, neither
NcmPayloads ==
  { <<>>, <<102, 76, 97>>, FlacMagic \o <<1, 2>>, Id3Magic \o <<4, 0, 9>>, <<1, 2, 3, 4, 5>> }

Files ==
  { [bytes |-> b, payload |-> <<>>, ncmOk |-> FALSE, tagOk |-> FALSE] : b \in FileBytes }
    \cup { [bytes |-> NcmMagic, payload |-> q, ncmOk |-> TRUE, tagOk |-> t] :
             q \in NcmPayloads, t \in BOOLEAN }

OldFile == [exists |-> TRUE, data |-> [i \in 1..12 |-> 9]]

InitCli ==
  /\ prog \in {"cli", "bin"}
  /\ verbose \in BOOLEAN
  /\ force \in (IF prog = "bin" THEN BOOLEAN ELSE {FALSE})
  /\ others \in (IF prog = "cli" THEN BOOLEAN ELSE {FALSE})
  /\ item \in Files
  /\ fs0 \in [Exts -> {NoFile, OldFile}]
  /\ fs = fs0
  /\ opened = {}
  /\ pc = "start"
  /\ head = [i \in 1..8 |-> 0]
  /\ headN = 0
  /\ format = (IF prog = "bin" THEN ProviderFormat(item) ELSE "None")
  /\ kept = FALSE
  /\ decoder = "none"
  /\ dpos = 0
  /\ dcur = 0
  /\ extBuf = [i \in 1..4 |-> 0]
  /\ ext = "none"
  /\ data = <<>>
  /\ total = 0
  /\ result = NoResult
  /\ log = <<>>
  /\ EncIdle
  /\ QmcIdle
  /\ PipeIdle
  /\ PathIdle

----------------------------------------------------------------------------
(* Reading through the decoder the source was wrapped in. *)

\* the container decoder: whether from_reader accepts the file, the audio
\* payload its reads yield, and whether get_tag has a tag
NcmOpens(it) == it.ncmOk

NcmPayload(it) == it.payload

NcmHasTag(it) == it.tagOk

\* the bytes behind the decoder: the file for QmcDump, the audio payload
\* for the container decoder
SourceBytes == IF decoder = "Qmc" THEN item.bytes ELSE NcmPayload(item)

SourceSizes(m) ==
  IF m = 0 \/ dpos >= Len(SourceBytes)
  THEN {0}
  ELSE 1..Min(m, Len(SourceBytes) - dpos)

\* the caller's buffer old after a read that returned n
DecoderRead(old, n) ==
  LET filled == [i \in 1..Len(old) |-> IF i <= n THEN SourceBytes[dpos + i] ELSE old[i]]
  IN  IF decoder = "Qmc" THEN ReadEncrypt(dcur, filled) ELSE filled

\* &buffer[..size] after a read of the 1024-byte buffer that returned n:
\* encrypt works byte by byte, so the slice is computed without the tail
DecoderChunk(n) == DecoderRead([i \in 1..n |-> 0], n)

DecoderCursor(n, m) == IF decoder = "Qmc" THEN ReadCursor(dcur, n, m) ELSE dcur

----------------------------------------------------------------------------
(* crates/ncmdump-bin/src/main.rs: Program::dump and dump_data. *)

\* the match on result that ends Program::dump
BinDumpReturn(kind) ==
  /\ pc' = "done"
  /\ IF kind \in {"Format", "Exists"}
     THEN /\ result' = [ret |-> "Ok", err |-> kind]
          /\ log' = IF verbose THEN Append(log, kind) ELSE log
     ELSE /\ result' = [ret |-> IF kind = "Ok" THEN "Ok" ELSE "Err",
                        err |-> IF kind = "Ok" THEN "none" ELSE kind]
          /\ log' = log

\* Program::dump up to the call of dump_data
BinDump ==
  /\ prog = "bin"
  /\ pc = "start"
  /\ \E openOk \in BOOLEAN :
       IF ~openOk
       THEN BinDumpReturn("Io") /\ UNCHANGED decoder
       ELSE CASE format = "Other" -> BinDumpReturn("Format") /\ UNCHANGED decoder
              [] format = "Ncm" ->
                   IF NcmOpens(item)
                   THEN decoder' = "Ncm" /\ pc' = "magic" /\ UNCHANGED <<result, log>>
                   ELSE BinDumpReturn("Decode") /\ UNCHANGED decoder
              [] format = "Qmc" ->
                   decoder' = "Qmc" /\ pc' = "magic" /\ UNCHANGED <<result, log>>
  /\ UNCHANGED <<prog, verbose, force, others, item, fs0, fs, opened, head, headN,
                 format, kept, dpos, dcur, extBuf, ext, data, total>>
  /\ UNCHANGED <<encVars, qmcVars, pipeVars, pathVars>>

\* dump_data: the read of ext_buffer and the match on it
BinMagic ==
  /\ prog = "bin"
  /\ pc = "magic"
  /\ \/ /\ BinDumpReturn("Io")
        /\ UNCHANGED <<dpos, dcur, extBuf, ext>>
     \/ \E n \in SourceSizes(4) :
          /\ extBuf' = DecoderRead(extBuf, n)
          /\ dpos' = dpos + n
          /\ dcur' = DecoderCursor(n, 4)
          /\ IF n = 4 /\ MagicExt(extBuf') # "none"
             THEN ext' = MagicExt(extBuf') /\ pc' = "target" /\ UNCHANGED <<result, log>>
             ELSE ext' = ext /\ BinDumpReturn("Format")
  /\ UNCHANGED <<prog, verbose, force, others, item, fs0, fs, opened, head, headN,
                 format, kept, decoder, data, total>>
  /\ UNCHANGED <<encVars, qmcVars, pipeVars, pathVars>>

BinTargetAlwaysOpenMutant ==
  /\ prog = "bin"
  /\ pc = "target"
  /\ \/ BinDumpReturn("Io") /\ UNCHANGED <<fs, opened, data>>
     \/ /\ fs' = [fs EXCEPT ![ext] = [exists |-> TRUE, data |-> <<>>]]
        /\ opened' = opened \cup {ext}
        /\ data' = extBuf
        /\ pc' = "read"
        /\ UNCHANGED <<result, log>>
  /\ UNCHANGED <<prog, verbose, force, others, item, fs0, head, headN, format, kept,
                 decoder, dpos, dcur, extBuf, ext, total>>
  /\ UNCHANGED <<encVars, qmcVars, pipeVars, pathVars>>

BinTargetDropHeadMutant ==
  /\ prog = "bin"
  /\ pc = "target"
  /\ IF fs[ext].exists /\ ~force
     THEN BinDumpReturn("Exists") /\ UNCHANGED <<fs, opened, data>>
     ELSE \/ BinDumpReturn("Io") /\ UNCHANGED <<fs, opened, data>>
          \/ /\ fs' = [fs EXCEPT ![ext] = [exists |-> TRUE, data |-> <<>>]]
             /\ opened' = opened \cup {ext}
             /\ data' = <<>>
             /\ pc' = "read"
             /\ UNCHANGED <<result, log>>
  /\ UNCHANGED <<prog, verbose, force, others, item, fs0, head, headN, format, kept,
                 decoder, dpos, dcur, extBuf, ext, total>>
  /\ UNCHANGED <<encVars, qmcVars, pipeVars, pathVars>>

\* dump_data: the target path, the exists check, the open, and the four
\* bytes kept.  An input file's path has a parent and a stem, so Error::Path
\* does not arise.
BinTarget ==
  /\ prog = "bin"
  /\ pc = "target"
  /\ IF fs[ext].exists /\ ~force
     THEN BinDumpReturn("Exists") /\ UNCHANGED <<fs, opened, data>>
     ELSE \/ BinDumpReturn("Io") /\ UNCHANGED <<fs, opened, data>>
          \/ /\ fs' = [fs EXCEPT ![ext] = [exists |-> TRUE, data |-> <<>>]]
             /\ opened' = opened \cup {ext}
             /\ data' = extBuf
             /\ pc' = "read"
             /\ UNCHANGED <<result, log>>
  /\ UNCHANGED <<prog, verbose, force, others, item, fs0, head, headN, format, kept,
                 decoder, dpos, dcur, extBuf, ext, total>>
  /\ UNCHANGED <<encVars, qmcVars, pipeVars, pathVars>>

\* dump_data: one turn of the read loop
BinRead ==
  /\ prog = "bin"
  /\ pc = "read"
  /\ \/ /\ BinDumpReturn("Io")
        /\ UNCHANGED <<dpos, dcur, data, total>>
     \/ \E n \in SourceSizes(DumpBufferSize) :
          /\ data' = data \o DecoderChunk(n)
          /\ dpos' = dpos + n
          /\ dcur' = DecoderCursor(n, DumpBufferSize)
          /\ total' = total + n
          /\ pc' = IF n = 0 THEN "tag" ELSE "read"
          /\ UNCHANGED <<result, log>>
  /\ UNCHANGED <<prog, verbose, force, others, item, fs0, fs, opened, head, headN,
                 format, kept, decoder, extBuf, ext>>
  /\ UNCHANGED <<encVars, qmcVars, pipeVars, pathVars>>

\* dump_data: the tag, when the decoder has one, is written into data
BinTag ==
  /\ prog = "bin"
  /\ pc = "tag"
  /\ IF decoder = "Ncm" /\ NcmHasTag(item)
     THEN \/ BinDumpReturn("Tag") /\ UNCHANGED data
          \/ data' = Tagged(data) /\ pc' = "write" /\ UNCHANGED <<result, log>>
     ELSE pc' = "write" /\ UNCHANGED <<data, result, log>>
  /\ UNCHANGED <<prog, verbose, force, others, item, fs0, fs, opened, head, headN,
                 format, kept, decoder, dpos, dcur, extBuf, ext, total>>
  /\ UNCHANGED <<encVars, qmcVars, pipeVars, pathVars>>

\* dump_data: target.write_all(&data.into_inner())
BinWrite ==
  /\ prog = "bin"
  /\ pc = "write"
  /\ \/ BinDumpReturn("Io") /\ UNCHANGED fs
     \/ fs' = [fs EXCEPT ![ext].data = data] /\ BinDumpReturn("Ok")
  /\ UNCHANGED <<prog, verbose, force, others, item, fs0, opened, head, headN, format,
                 kept, decoder, dpos, dcur, extBuf, ext, data, total>>
  /\ UNCHANGED <<encVars, qmcVars, pipeVars, pathVars>>

----------------------------------------------------------------------------
(* src/main.rs: the single-threaded front end. *)

\* how NcmdumpCli::start takes what dump returned: with one item the error
\* is the run's (`?`), with more it is printed and the loop goes on
CliDumpReturn(kind) ==
  /\ pc' = "done"
  /\ IF kind = "Ok"
     THEN /\ result' = [ret |-> "Ok", err |-> "none"]
          /\ log' = IF verbose THEN Append(log, "complete") ELSE log
     ELSE IF others
          THEN /\ result' = [ret |-> "Ok", err |-> kind]
               /\ log' = Append(log, kind)
          ELSE /\ result' = [ret |-> "Err", err |-> kind]
               /\ log' = log

\* Wrapper::from_path: open, read the head, classify
CliFromPath ==
  /\ prog = "cli"
  /\ pc = "start"
  /\ \/ format' = "Err" /\ UNCHANGED <<head, headN>>
     \/ \E n \in (IF Len(item.bytes) = 0 THEN {0} ELSE 1..Min(8, Len(item.bytes))) :
          /\ head' = HeadBuffer(item.bytes, n)
          /\ headN' = n
          /\ format' = Sniff(head', n)
  /\ pc' = "info"
  /\ UNCHANGED <<prog, verbose, force, others, item, fs0, fs, opened, kept, decoder,
                 dpos, dcur, extBuf, ext, data, total, result, log>>
  /\ UNCHANGED <<encVars, qmcVars, pipeVars, pathVars>>

CliGetInfoKeepMutant ==
  /\ prog = "cli"
  /\ pc = "info"
  /\ kept' = (format # "Err")
  /\ pc' = "run"
  /\ UNCHANGED <<prog, verbose, force, others, item, fs0, fs, opened, head, headN,
                 format, decoder, dpos, dcur, extBuf, ext, data, total, result, log>>
  /\ UNCHANGED <<encVars, qmcVars, pipeVars, pathVars>>

\* get_info: an item from_path failed on, or of format Other, is not pushed
CliGetInfo ==
  /\ prog = "cli"
  /\ pc = "info"
  /\ kept' = (format \notin {"Err", "Other"})
  /\ pc' = "run"
  /\ UNCHANGED <<prog, verbose, force, others, item, fs0, fs, opened, head, headN,
                 format, decoder, dpos, dcur, extBuf, ext, data, total, result, log>>
  /\ UNCHANGED <<encVars, qmcVars, pipeVars, pathVars>>

\* NcmdumpCli::start after get_info: no item at all is NoFileError
CliStart ==
  /\ prog = "cli"
  /\ pc = "run"
  /\ IF kept
     THEN pc' = "open" /\ UNCHANGED result
     ELSE /\ pc' = "done"
          /\ result' = IF others
                       THEN [ret |-> "Ok", err |-> "none"]
                       ELSE [ret |-> "Err", err |-> "NoFileError"]
  /\ UNCHANGED <<prog, verbose, force, others, item, fs0, fs, opened, head, headN,
                 format, kept, decoder, dpos, dcur, extBuf, ext, data, total, log>>
  /\ UNCHANGED <<encVars, qmcVars, pipeVars, pathVars>>

\* NcmdumpCli::dump: open the file and wrap it in its decoder
CliDumpOpen ==
  /\ prog = "cli"
  /\ pc = "open"
  /\ \E openOk \in BOOLEAN :
       IF ~openOk
       THEN CliDumpReturn("Io") /\ UNCHANGED decoder
       ELSE CASE format = "Other" -> CliDumpReturn("InvalidFormat") /\ UNCHANGED decoder
              [] format = "Ncm" ->
                   IF NcmOpens(item)
                   THEN decoder' = "Ncm" /\ pc' = "collect" /\ UNCHANGED <<result, log>>
                   ELSE CliDumpReturn("Decode") /\ UNCHANGED decoder
              [] format = "Qmc" ->
                   decoder' = "Qmc" /\ pc' = "collect" /\ UNCHANGED <<result, log>>
  /\ UNCHANGED <<prog, verbose, force, others, item, fs0, fs, opened, head, headN,
                 format, kept, dpos, dcur, extBuf, ext, data, total>>
  /\ UNCHANGED <<encVars, qmcVars, pipeVars, pathVars>>

\* NcmdumpCli::get_data: one turn of `while let Ok(size) = dump.read(..)`;
\* a read error ends the loop like the end of the stream does
CliGetData ==
  /\ prog = "cli"
  /\ pc = "collect"
  /\ \/ pc' = "check" /\ UNCHANGED <<dpos, dcur, data>>
     \/ \E n \in SourceSizes(DumpBufferSize) :
          /\ data' = data \o DecoderChunk(n)
          /\ dpos' = dpos + n
          /\ dcur' = DecoderCursor(n, DumpBufferSize)
          /\ pc' = IF n = 0 THEN "check" ELSE "collect"
  /\ UNCHANGED <<prog, verbose, force, others, item, fs0, fs, opened, head, headN,
                 format, kept, decoder, extBuf, ext, total, result, log>>
  /\ UNCHANGED <<encVars, qmcVars, pipeVars, pathVars>>

\* NcmdumpCli::dump: match data[..4]; the slice panics on fewer than 4 bytes
CliCheck ==
  /\ prog = "cli"
  /\ pc = "check"
  /\ IF Len(data) < 4
     THEN /\ pc' = "done"
          /\ result' = [ret |-> "Panic", err |-> "slice"]
          /\ UNCHANGED <<ext, log>>
     ELSE IF MagicExt(SubSeq(data, 1, 4)) = "none"
          THEN CliDumpReturn("InvalidFormat") /\ UNCHANGED ext
          ELSE /\ ext' = MagicExt(SubSeq(data, 1, 4))
               /\ pc' = "write"
               /\ UNCHANGED <<result, log>>
  /\ UNCHANGED <<prog, verbose, force, others, item, fs0, fs, opened, head, headN,
                 format, kept, decoder, dpos, dcur, extBuf, data, total>>
  /\ UNCHANGED <<encVars, qmcVars, pipeVars, pathVars>>

\* NcmdumpCli::dump: open the output (created, not truncated), write the
\* data, and for an ncm item write the tag to the output
CliWrite ==
  /\ prog = "cli"
  /\ pc = "write"
  /\ \/ CliDumpReturn("Io") /\ UNCHANGED <<fs, opened>>
     \/ /\ opened' = opened \cup {ext}
        /\ LET written == Overwrite(fs[ext].data, data)
           IN  \/ /\ fs' = [fs EXCEPT ![ext] = [exists |-> TRUE, data |-> written]]
                  /\ CliDumpReturn(IF format = "Ncm" THEN "Tag" ELSE "Io")
               \/ /\ fs' = [fs EXCEPT ![ext] =
                              [exists |-> TRUE,
                               data |-> IF format = "Ncm" THEN Tagged(written) ELSE written]]
                  /\ CliDumpReturn("Ok")
  /\ UNCHANGED <<prog, verbose, force, others, item, fs0, head, headN, format, kept,
                 decoder, dpos, dcur, extBuf, ext, data, total>>
  /\ UNCHANGED <<encVars, qmcVars, pipeVars, pathVars>>

NextCli ==
  \/ BinDump
  \/ BinMagic
  \/ BinTarget
  \/ BinRead
  \/ BinTag
  \/ BinWrite
  \/ CliFromPath
  \/ CliGetInfo
  \/ CliStart
  \/ CliDumpOpen
  \/ CliGetData
  \/ CliCheck
  \/ CliWrite

SpecCli == InitCli /\ [][NextCli]_vars

----------------------------------------------------------------------------
(* SpecCli: the claims about the sniffer and the format checks. *)

\* C8: with 8 bytes read, from_path says Ncm exactly for the ncm magic, Qmc
\* exactly for a head starting A5 06 B7 89 or 8A 0E E5, Other otherwise;
\* with fewer than 8 bytes read it says Other whatever the content.
C8_Sniffer ==
  (prog = "cli" /\ format \notin {"None", "Err"}) =>
    IF headN = 8
    THEN LET isNcm == head = <<67, 84, 69, 78, 70, 68, 65, 77>>
             isQmc == \/ SubSeq(head, 1, 4) = <<165, 6, 183, 137>>
                      \/ SubSeq(head, 1, 3) = <<138, 14, 229>>
         IN  /\ head = SubSeq(item.bytes, 1, 8)
             /\ format = "Ncm" <=> isNcm
             /\ format = "Qmc" <=> isQmc
             /\ format = "Other" <=> (~isNcm /\ ~isQmc)
    ELSE format = "Other"

C8_Witness ==
  /\ prog = "cli"
  /\ headN = 8
  /\ head = <<138, 14, 229, 0, 0, 0, 0, 1>>
  /\ format = "Qmc"

\* C9 as stated: an item of format Other is never handed to a decoder and,
\* once processed, has been reported as a format error.
C9_OtherReported ==
  (format = "Other" /\ pc = "done") =>
    /\ decoder = "none"
    /\ \E i \in 1..Len(log) : log[i] \in {"Format", "InvalidFormat"}

\* C9 as amended: an item of format Other is never handed to a decoder and
\* no output is opened for it; Program::dump, once it has opened the source,
\* makes it a Format error of the item, printed only when verbose is set;
\* get_info drops it without a line.
C9_OtherNeverDecoded ==
  format = "Other" =>
    /\ decoder = "none"
    /\ opened = {}
    /\ fs = fs0
    /\ (prog = "bin" /\ pc = "done") =>
         \/ result = [ret |-> "Err", err |-> "Io"] /\ log = <<>>
         \/ /\ result = [ret |-> "Ok", err |-> "Format"]
            /\ log = (IF verbose THEN <<"Format">> ELSE <<>>)
    /\ (prog = "cli" /\ pc \in {"run", "open", "done"}) =>
         /\ ~kept
         /\ pc # "open"
         /\ log = <<>>

C9_Witness ==
  /\ format = "Other"
  /\ prog = "bin"
  /\ ~verbose
  /\ pc = "done"
  /\ result = [ret |-> "Ok", err |-> "Format"]
  /\ log = <<>>
  /\ item.bytes = <<165, 6, 183, 138, 0, 0, 0, 0>>

\* the whole stream the item's decoder yields
Decoded == IF decoder = "Qmc" THEN encrypt(0, item.bytes) ELSE NcmPayload(item)

\* C10: an item whose decoded stream does not begin with fLaC or ID3 and one
\* more byte (a stream of fewer than 4 bytes included) fails with a format
\* error, and no output file is created, opened or truncated for it.
C10_FormatRejection ==
  ( /\ pc = "done"
    /\ decoder # "none"
    /\ result.err # "Io"
    /\ prog = "cli" => dpos = Len(SourceBytes)
    /\ Len(Decoded) < 4 \/ MagicExt(SubSeq(Decoded, 1, 4)) = "none" ) =>
      /\ result.err \in {"Format", "InvalidFormat"}
      /\ opened = {}
      /\ fs = fs0

----------------------------------------------------------------------------
(* SpecCli: the claims about the output file of Program::dump. *)

\* what a successful dump_data hands to target.write_all
DumpOutput == IF decoder = "Ncm" /\ NcmHasTag(item) THEN Tagged(Decoded) ELSE Decoded

\* C11: when the output path computed for the item exists and force is not
\* set, the item ends with the Exists error and every file is as it was;
\* when force is set and the item succeeds, the file at the output path
\* holds the newly decoded output in place of what it held.
C11_OutputCollision ==
  (prog = "bin" /\ ext # "none" /\ fs0[ext].exists) =>
    /\ (~force /\ pc # "target") =>
         /\ pc = "done"
         /\ result = [ret |-> "Ok", err |-> "Exists"]
         /\ opened = {}
         /\ fs = fs0
    /\ (force /\ pc = "done" /\ result = [ret |-> "Ok", err |-> "none"]) =>
         /\ fs[ext] = [exists |-> TRUE, data |-> DumpOutput]
         /\ \A e \in Exts \ {ext} : fs[e] = fs0[e]

C11_Witness ==
  /\ prog = "bin"
  /\ force
  /\ ext = "mp3"
  /\ fs0[ext] = OldFile
  /\ pc = "done"
  /\ result = [ret |-> "Ok", err |-> "none"]
  /\ fs[ext].data = Id3Magic \o <<4, 0, 9>>

\* C20: for an item read through QmcDump, which has no tag, that succeeds,
\* the bytes written to the output file are encrypt(0, whole input): the 4
\* bytes read for the magic check, then every later chunk in order.
C20_PassThrough ==
  (prog = "bin" /\ decoder = "Qmc" /\ pc = "done"
     /\ result = [ret |-> "Ok", err |-> "none"]) =>
    /\ fs[ext].data = encrypt(0, item.bytes)
    /\ SubSeq(fs[ext].data, 1, 4) = extBuf
    /\ Len(fs[ext].data) = Len(item.bytes)
    /\ total = Len(item.bytes) - 4

C20_Witness ==
  /\ prog = "bin"
  /\ decoder = "Qmc"
  /\ pc = "done"
  /\ result = [ret |-> "Ok", err |-> "none"]
  /\ item.bytes = QmcMp3Magic \o <<3, 4, 5, 6, 7, 8>>
  /\ fs[ext].data = encrypt(0, item.bytes)
  /\ fs0[ext] = NoFile

----------------------------------------------------------------------------
(* crates/ncmdump-bin: Program::start with its threads, and Command::invalid. *)

MaxWorker == 8
MaxMatchers == 2

\* Command::invalid: the error it returns, "Ok" for none
InvalidTargetsFirstMutant(w, t) ==
  IF Len(t) = 0 THEN "NoTarget"
  ELSE IF w < 1 \/ w > MaxWorker THEN "Worker"
  ELSE "Ok"

invalid(w, t) ==
  IF w < 1 \/ w > MaxWorker THEN "Worker"
  ELSE IF Len(t) = 0 THEN "NoTarget"
  ELSE "Ok"

\* what a matcher leads to: an invalid pattern, a path that glob cannot
\* read or FileProvider::new fails on (Error::Path both), a path that is
\* not a file, or a file
Entry(kind) == [kind |-> kind, name |-> kind, out |-> "none", fate |-> "none", size |-> 0]

FileEntry(name, out, fate, size) ==
  [kind |-> "file", name |-> name, out |-> out, fate |-> fate, size |-> size]

\* the files: two of the same stem that decode to the same codec, a third
\* good one, one of format Other, a container Ncmdump::from_reader refuses,
\* and one whose reads fail after the magic bytes
PipeFiles ==
  { FileEntry("a.qmcflac", "a.flac", "good", 6),
    FileEntry("a.qmc0", "a.flac", "good", 5),
    FileEntry("c.qmc3", "c.mp3", "good", 7),
    FileEntry("m.bin", "none", "other", 2),
    FileEntry("d.ncm", "none", "decode", 9),
    FileEntry("r.qmc3", "r.mp3", "readerr", 8) }

Entries == PipeFiles \cup { Entry(k) : k \in {"pattern", "nopath", "dir"} }

OutPaths == {"a.flac", "c.mp3", "r.mp3"}

WorkerCounts == 0..(MaxWorker + 1)

\* an output path: whether a file is there, whose bytes it holds ("none"
\* for an empty file), how many, and the messages written into it
NoOutput == [exists |-> FALSE, data |-> "none", len |-> 0, by |-> {}]

OldOutput == [exists |-> TRUE, data |-> "old", len |-> 12, by |-> {}]

InitPipe ==
  /\ worker \in WorkerCounts
  /\ matchers \in SeqsUpTo(Entries, MaxMatchers)
  /\ verbose \in BOOLEAN
  /\ force \in BOOLEAN
  /\ outputs \in { [p \in OutPaths |-> IF p = "a.flac" THEN t ELSE NoOutput] :
                     t \in (IF force THEN {NoOutput} ELSE {NoOutput, OldOutput}) }
  /\ main = "start"
  /\ joined = 0
  /\ run = "none"
  /\ producer = [pc |-> "idle", i |-> 0, len |-> 0, ret |-> "none"]
  /\ length = 0
  /\ position = 0
  /\ queue = <<>>
  /\ published = <<>>
  /\ taken = <<>>
  /\ workers = EmptyBag
  /\ clobbered = {}
  /\ warnings = <<>>
  /\ prog = "none"
  /\ others = FALSE
  /\ item = [bytes |-> <<>>, payload |-> <<>>, ncmOk |-> FALSE, tagOk |-> FALSE]
  /\ fs0 = [e \in {"flac", "mp3"} |-> NoFile]
  /\ fs = fs0
  /\ opened = {}
  /\ pc = "idle"
  /\ head = <<>>
  /\ headN = 0
  /\ format = "None"
  /\ kept = FALSE
  /\ decoder = "none"
  /\ dpos = 0
  /\ dcur = 0
  /\ extBuf = <<>>
  /\ ext = "none"
  /\ data = <<>>
  /\ total = 0
  /\ result = NoResult
  /\ log = <<>>
  /\ EncIdle
  /\ QmcIdle
  /\ PathIdle

\* a worker thread as spawned, and the bag with thread t now in state u.
\* The threads run the same closure and start joins them as they come in
\* tasks, so a thread's place in tasks is left open until it is joined.
Spawned == [pc |-> "recv", msg |-> 0, seen |-> FALSE, ret |-> "none"]

Becomes(t, u) == (workers (-) SetToBag({t})) (+) SetToBag({u})

\* start: the two checks, then the channel and the spawns
Start ==
  /\ main = "start"
  /\ IF worker \notin 1..MaxWorker
     THEN /\ run' = "Worker" /\ main' = "returned"
          /\ UNCHANGED <<producer, workers>>
     ELSE IF Len(matchers) = 0
     THEN /\ run' = "NoFile" /\ main' = "returned"
          /\ UNCHANGED <<producer, workers>>
     ELSE /\ producer' = [producer EXCEPT !.pc = "glob", !.i = 1]
          /\ workers' = (Spawned :> worker)
          /\ main' = "join"
          /\ run' = run
  /\ UNCHANGED <<worker, matchers, joined, length, position, queue, published, taken,
                 outputs, clobbered, warnings>>
  /\ UNCHANGED <<encVars, qmcVars, cliVars, pathVars>>

\* start: task.join().unwrap()? on the producer, the first of tasks
JoinProducer ==
  /\ main = "join"
  /\ joined = 0
  /\ producer.ret # "none"
  /\ IF producer.ret = "Ok"
     THEN joined' = 1 /\ UNCHANGED <<run, main>>
     ELSE run' = producer.ret /\ main' = "returned" /\ joined' = joined
  /\ UNCHANGED <<worker, matchers, producer, length, position, queue, published, taken,
                 workers, outputs, clobbered, warnings>>
  /\ UNCHANGED <<encVars, qmcVars, cliVars, pathVars>>

\* start: task.join().unwrap()? on the next worker of tasks, which has
\* returned r; finish and Ok(()) after the last
JoinWorker(t) ==
  /\ main = "join"
  /\ joined >= 1
  /\ t.pc = "exited"
  /\ IF t.ret = "Ok"
     THEN /\ joined' = joined + 1
          /\ workers' = Becomes(t, [t EXCEPT !.pc = "joined"])
          /\ IF joined' = worker + 1
             THEN run' = "Ok" /\ main' = "returned"
             ELSE UNCHANGED <<run, main>>
     ELSE /\ run' = t.ret
          /\ main' = "returned"
          /\ UNCHANGED <<joined, workers>>
  /\ UNCHANGED <<worker, matchers, producer, length, position, queue, published, taken,
                 outputs, clobbered, warnings>>
  /\ UNCHANGED <<encVars, qmcVars, cliVars, pathVars>>

\* the threads run until start returns and the process with it
Running == main = "join"

ProducerNextSkipMutant ==
  /\ Running
  /\ producer.pc = "glob"
  /\ IF producer.i > Len(matchers)
     THEN producer' = [producer EXCEPT !.pc = "done", !.ret = "Ok"]
     ELSE LET e == matchers[producer.i]
          IN  CASE e.kind = "pattern" ->
                     producer' = [producer EXCEPT !.pc = "done", !.ret = "Pattern"]
                [] e.kind \in {"nopath", "dir"} ->
                     producer' = [producer EXCEPT !.i = @ + 1]
                [] e.kind = "file" ->
                     producer' = [producer EXCEPT !.pc = "set_length", !.len = length]
  /\ UNCHANGED <<worker, matchers, main, joined, run, length, position, queue,
                 published, taken, workers, outputs, clobbered, warnings>>
  /\ UNCHANGED <<encVars, qmcVars, cliVars, pathVars>>

\* the producer: the next matcher's entry, up to the read of total.length()
ProducerNext ==
  /\ Running
  /\ producer.pc = "glob"
  /\ IF producer.i > Len(matchers)
     THEN producer' = [producer EXCEPT !.pc = "done", !.ret = "Ok"]
     ELSE LET e == matchers[producer.i]
          IN  CASE e.kind = "pattern" ->
                     producer' = [producer EXCEPT !.pc = "done", !.ret = "Pattern"]
                [] e.kind = "nopath" ->
                     producer' = [producer EXCEPT !.pc = "done", !.ret = "Path"]
                [] e.kind = "dir" ->
                     producer' = [producer EXCEPT !.i = @ + 1]
                [] e.kind = "file" ->
                     producer' = [producer EXCEPT !.pc = "set_length", !.len = length]
  /\ UNCHANGED <<worker, matchers, main, joined, run, length, position, queue,
                 published, taken, workers, outputs, clobbered, warnings>>
  /\ UNCHANGED <<encVars, qmcVars, cliVars, pathVars>>

\* the producer: state.total.set_length(len + p.get_size())
SetLengthOverwriteMutant(len, size) == size

SetLength(len, size) == len + size

ProducerSetLengthSkipMutant ==
  /\ Running
  /\ producer.pc = "set_length"
  /\ producer' = [producer EXCEPT !.pc = "send"]
  /\ UNCHANGED <<worker, matchers, main, joined, run, length, position, queue, published,
                 taken, workers, outputs, clobbered, warnings>>
  /\ UNCHANGED <<encVars, qmcVars, cliVars, pathVars>>

ProducerSetLength ==
  /\ Running
  /\ producer.pc = "set_length"
  /\ length' = SetLength(producer.len, matchers[producer.i].size)
  /\ producer' = [producer EXCEPT !.pc = "send"]
  /\ UNCHANGED <<worker, matchers, main, joined, run, position, queue, published,
                 taken, workers, outputs, clobbered, warnings>>
  /\ UNCHANGED <<encVars, qmcVars, cliVars, pathVars>>

\* the producer: tx.send(p)?.  start keeps rx until it returns, and it
\* joins the producer first, so the channel has a receiver and send succeeds
ProducerSend ==
  /\ Running
  /\ producer.pc = "send"
  /\ published' = Append(published, matchers[producer.i])
  /\ queue' = Append(queue, Len(published'))
  /\ producer' = [producer EXCEPT !.pc = "glob", !.i = @ + 1]
  /\ UNCHANGED <<worker, matchers, main, joined, run, length, position, taken,
                 workers, outputs, clobbered, warnings>>
  /\ UNCHANGED <<encVars, qmcVars, cliVars, pathVars>>

\* the channel after rx.recv() has returned its head
RecvPeekMutant(q) == q

Recv(q) == Tail(q)

WorkerRecvEmptyExitMutant(t) ==
  /\ Running
  /\ t.pc = "recv"
  /\ IF queue # <<>>
     THEN /\ workers' = Becomes(t, [t EXCEPT !.pc = "dump", !.msg = Head(queue)])
          /\ taken' = Append(taken, Head(queue))
          /\ queue' = Recv(queue)
     ELSE /\ workers' = Becomes(t, [t EXCEPT !.pc = "exited", !.ret = "Ok"])
          /\ UNCHANGED <<taken, queue>>
  /\ UNCHANGED <<worker, matchers, main, joined, run, producer, length, position,
                 published, outputs, clobbered, warnings>>
  /\ UNCHANGED <<encVars, qmcVars, cliVars, pathVars>>

\* a worker: rx.recv(); Err, which ends the loop, once the channel is empty
\* and tx is gone with the producer's closure
WorkerRecv(t) ==
  /\ Running
  /\ t.pc = "recv"
  /\ IF queue # <<>>
     THEN /\ workers' = Becomes(t, [t EXCEPT !.pc = "dump", !.msg = Head(queue)])
          /\ taken' = Append(taken, Head(queue))
          /\ queue' = Recv(queue)
     ELSE /\ producer.pc = "done"
          /\ workers' = Becomes(t, [t EXCEPT !.pc = "exited", !.ret = "Ok"])
          /\ UNCHANGED <<taken, queue>>
  /\ UNCHANGED <<worker, matchers, main, joined, run, producer, length, position,
                 published, outputs, clobbered, warnings>>
  /\ UNCHANGED <<encVars, qmcVars, cliVars, pathVars>>

\* a DumpError ends Program::dump with Ok(()), printed under verbose, and
\* the worker's loop goes on
DumpErrorReturn(t, kind) ==
  /\ workers' = Becomes(t, Spawned)
  /\ warnings' = IF verbose THEN Append(warnings, <<kind, published[t.msg].name>>)
                 ELSE warnings

\* any other error leaves dump, through `?` or as `result`, and then the
\* worker's closure through `?`
ErrorReturnCaughtMutant(t, kind) ==
  /\ workers' = Becomes(t, Spawned)
  /\ warnings' = warnings

ErrorReturn(t, kind) ==
  /\ workers' = Becomes(t, [t EXCEPT !.pc = "exited", !.ret = kind])
  /\ warnings' = warnings

\* a worker: Program::dump and dump_data up to target_path.exists()
WorkerDump(t) ==
  /\ Running
  /\ t.pc = "dump"
  /\ LET f == published[t.msg]
     IN  CASE f.fate = "other" -> DumpErrorReturn(t, "Format")
           [] f.fate = "decode" -> ErrorReturn(t, "Decode")
           [] f.fate \in {"good", "readerr"} ->
                IF outputs[f.out].exists /\ ~force
                THEN DumpErrorReturn(t, "Exists")
                ELSE /\ workers' = Becomes(t, [t EXCEPT !.pc = "open",
                                                        !.seen = outputs[f.out].exists])
                     /\ warnings' = warnings
  /\ UNCHANGED <<worker, matchers, main, joined, run, producer, length, position,
                 queue, published, taken, outputs, clobbered>>
  /\ UNCHANGED <<encVars, qmcVars, cliVars, pathVars>>

\* a worker: option.truncate(true).write(true), with create(true) when the
\* path was seen absent, then open
WorkerOpen(t) ==
  /\ Running
  /\ t.pc = "open"
  /\ LET f == published[t.msg]
     IN  /\ outputs' = [outputs EXCEPT ![f.out] =
                          [exists |-> TRUE, data |-> "none", len |-> 0, by |-> @.by]]
         /\ clobbered' = IF outputs[f.out].exists THEN clobbered \cup {f.out}
                         ELSE clobbered
  /\ workers' = Becomes(t, [t EXCEPT !.pc = "read"])
  /\ UNCHANGED <<worker, matchers, main, joined, run, producer, length, position,
                 queue, published, taken, warnings>>
  /\ UNCHANGED <<encVars, qmcVars, cliVars, pathVars>>

\* a worker: the read loop, total.inc(size) for what follows the 4 bytes
WorkerRead(t) ==
  /\ Running
  /\ t.pc = "read"
  /\ LET f == published[t.msg]
     IN  IF f.fate = "readerr"
         THEN ErrorReturn(t, "Io") /\ UNCHANGED position
         ELSE /\ position' = position + (f.size - 4)
              /\ workers' = Becomes(t, [t EXCEPT !.pc = "write"])
              /\ warnings' = warnings
  /\ UNCHANGED <<worker, matchers, main, joined, run, producer, length, queue,
                 published, taken, outputs, clobbered>>
  /\ UNCHANGED <<encVars, qmcVars, cliVars, pathVars>>

\* a worker: target.write_all(&data.into_inner()), from the handle's offset
\* 0 over what the file holds by then; dump returns Ok(())
WorkerWrite(t) ==
  /\ Running
  /\ t.pc = "write"
  /\ LET f == published[t.msg]
         o == outputs[f.out]
     IN  outputs' = [outputs EXCEPT ![f.out] =
                       [exists |-> TRUE,
                        data |-> IF o.len > f.size THEN "mixed" ELSE f.name,
                        len |-> IF o.len > f.size THEN o.len ELSE f.size,
                        by |-> o.by \cup {t.msg}]]
  /\ workers' = Becomes(t, Spawned)
  /\ UNCHANGED <<worker, matchers, main, joined, run, producer, length, position,
                 queue, published, taken, clobbered, warnings>>
  /\ UNCHANGED <<encVars, qmcVars, cliVars, pathVars>>

NextPipe ==
  \/ Start
  \/ JoinProducer
  \/ ProducerNext
  \/ ProducerSetLength
  \/ ProducerSend
  \/ \E t \in BagToSet(workers) :
       \/ JoinWorker(t)
       \/ WorkerRecv(t)
       \/ WorkerDump(t)
       \/ WorkerOpen(t)
       \/ WorkerRead(t)
       \/ WorkerWrite(t)

SpecPipe == InitPipe /\ [][NextPipe]_vars

\* the same under a scheduler that lets a thread that can run, run
SpecPipeFair == SpecPipe /\ WF_vars(NextPipe)

----------------------------------------------------------------------------
(* SpecPipe: the claims about the configuration, the queue and the counters. *)

\* C16: invalid accepts exactly a worker count in 1..8 with a non-empty
\* target list; a count outside 1..8 is the Worker error whatever the
\* targets, an empty list with a valid count is the NoTarget error; start
\* makes the same two checks, and when one fails it returns before a thread
\* is spawned or a file touched.
C16_Validation ==
  LET v == invalid(worker, matchers)
  IN  /\ v = "Ok" <=> (worker \in 1..8 /\ matchers # <<>>)
      /\ worker \notin 1..8 => v = "Worker"
      /\ (worker \in 1..8 /\ matchers = <<>>) => v = "NoTarget"
      /\ main = "returned" =>
           /\ v = "Worker" <=> run = "Worker"
           /\ v = "NoTarget" <=> run = "NoFile"
      /\ (main # "start" /\ v # "Ok") =>
           /\ main = "returned"
           /\ workers = EmptyBag
           /\ producer.pc = "idle"
           /\ published = <<>>
           /\ \A p \in OutPaths : outputs[p].by = {} /\ outputs[p].data \in {"none", "old"}
           /\ clobbered = {}

C16_Witness ==
  /\ worker = 9
  /\ matchers = <<>>
  /\ main = "returned"
  /\ run = "Worker"
  /\ workers = EmptyBag

\* C17: each message sent is received at most once, whatever the number of
\* workers: no message is in two workers' hands, and none is taken twice.
C17_ExactlyOnce ==
  /\ \A i, j \in 1..Len(taken) : taken[i] = taken[j] => i = j
  /\ \A k \in 1..Len(queue) : \A i \in 1..Len(taken) : queue[k] # taken[i]
  /\ \A t \in BagToSet(workers) : t.msg # 0 => CopiesIn(t, workers) = 1
  /\ \A t, u \in BagToSet(workers) : (t.msg # 0 /\ t.msg = u.msg) => t = u

C17_Witness ==
  /\ worker = 8
  /\ Len(taken) = 2
  /\ \E t, u \in BagToSet(workers) : t.pc = "write" /\ u.pc = "write" /\ t.msg # u.msg

RECURSIVE SumSizes(_)
SumSizes(q) == IF q = <<>> THEN 0 ELSE Head(q).size + SumSizes(Tail(q))

RECURSIVE SumRead(_)
SumRead(S) ==
  IF S = {} THEN 0
  ELSE LET k == CHOOSE x \in S : TRUE
       IN  (published[k].size - 4) + SumRead(S \ {k})

\* the messages whose read loop has been run to its end
ReadThrough ==
  UNION { outputs[p].by : p \in OutPaths }
    \cup { t.msg : t \in { u \in BagToSet(workers) : u.pc = "write" } }

\* C19: neither counter ever decreases, and no increment is lost: between
\* two files of the producer, and so when the run is done, the expected
\* total is the sum of the sizes of the files sent, and the bytes completed
\* are the sum of what the finished read loops counted.
C19_Counters ==
  /\ [][length' >= length /\ position' >= position]_vars
  /\ [](producer.pc \in {"glob", "done"} => length = SumSizes(published))
  /\ [](run = "Ok" => length = SumSizes(published))
  /\ [](position = SumRead(ReadThrough))

C19_Witness ==
  /\ run = "Ok"
  /\ worker = 3
  /\ Len(published) = 2
  /\ length = 13
  /\ position = 5

----------------------------------------------------------------------------
(* SpecPipe: the claims about the output files and about failures. *)

\* C12: with force unset no output file that is there is ever truncated or
\* overwritten, one created earlier in the run included, and at most one
\* worker writes a given output path.
C12_NoOverwrite ==
  ~force =>
    /\ clobbered = {}
    /\ \A p \in OutPaths : Cardinality(outputs[p].by) <= 1

\* the entries of matchers that are files of fate x
FilesOf(x) == { i \in 1..Len(matchers) : matchers[i].kind = "file" /\ matchers[i].fate \in x }

\* C13: a run over files of which exactly one is malformed, the others
\* well-formed with outputs of their own that are free to write, ends Ok
\* whatever the worker count, with an output written for every well-formed
\* file and exactly one failure reported, for the malformed one (verbose,
\* so that failures are printed).
C13_Isolation ==
  ( /\ main = "returned"
    /\ worker \in 1..8
    /\ verbose
    /\ matchers # <<>>
    /\ \A i \in 1..Len(matchers) : matchers[i].kind = "file"
    /\ Cardinality(FilesOf({"other", "decode"})) = 1
    /\ FilesOf({"good"}) \cup FilesOf({"other", "decode"}) = 1..Len(matchers)
    /\ \A i, j \in FilesOf({"good"}) : matchers[i].out = matchers[j].out => i = j
    /\ \A i \in FilesOf({"good"}) : force \/ outputs[matchers[i].out].data # "old" ) =>
      /\ run = "Ok"
      /\ \A i \in FilesOf({"good"}) : outputs[matchers[i].out].data = matchers[i].name
      /\ Len(warnings) = 1
      /\ \A i \in FilesOf({"other", "decode"}) : warnings[1][2] = matchers[i].name

C15_OnlyQueueFailures ==
  (main = "returned" /\ run \notin {"Worker", "NoFile"}) => run \in {"Ok", "Send", "Recv"}

\* C15 as amended: once the configuration is accepted, start returns an
\* error exactly when the producer met an invalid pattern, an entry glob
\* could not read or a file FileProvider::new failed on, which no run that
\* returns Ok has skipped, or when a worker's dump returned a decoder or
\* I/O error; a send does not fail while start runs, and a receive that
\* fails ends the worker's loop with Ok.
C15_RunFailures ==
  /\ main = "returned" =>
       run \in {"Worker", "NoFile", "Ok", "Pattern", "Path", "Decode", "Io"}
  /\ producer.ret \in {"none", "Ok", "Pattern", "Path"}
  /\ producer.ret \in {"Pattern", "Path"} =>
       /\ producer.pc = "done"
       /\ matchers[producer.i].kind \in
            (IF producer.ret = "Pattern" THEN {"pattern"} ELSE {"nopath"})
  /\ producer.ret = "Ok" =>
       \A i \in 1..Len(matchers) : matchers[i].kind \in {"file", "dir"}
  /\ run \in {"Pattern", "Path"} => producer.ret = run
  /\ run \in {"Decode", "Io"} =>
       /\ producer.ret = "Ok"
       /\ \E t \in BagToSet(workers) : t.pc = "exited" /\ t.ret = run
  /\ \A t \in BagToSet(workers) :
       (t.pc \in {"exited", "joined"} /\ t.msg = 0) => (t.ret = "Ok" /\ queue = <<>>)

C15_Witness ==
  /\ main = "returned"
  /\ run = "Path"
  /\ worker = 2
  /\ Len(matchers) = 2
  /\ matchers[2].kind = "nopath"
  /\ Len(published) = 1

\* C18 as stated: every run of an accepted configuration ends Done, the
\* producer finished, every worker out of its loop, the queue empty and
\* every message taken.
C18_DoneDrained ==
  (main = "returned" /\ run \notin {"Worker", "NoFile"}) =>
    /\ run = "Ok"
    /\ producer.pc = "done"
    /\ \A t \in BagToSet(workers) : t.pc \in {"exited", "joined"}
    /\ queue = <<>>
    /\ Len(taken) = Len(published)

\* C18 as amended: under fair scheduling start returns in the end, for
\* every worker count and input; when it returns Ok the producer has
\* finished, every worker has left its loop and been joined, the queue is
\* empty and every message sent has been taken; when it returns an error of
\* the producer or of a worker, messages may be left and workers running.
C18_Termination ==
  /\ <>(main = "returned")
  /\ [](run = "Ok" =>
          /\ main = "returned"
          /\ producer.pc = "done" /\ producer.ret = "Ok"
          /\ \A t \in BagToSet(workers) : t.pc = "joined" /\ t.ret = "Ok"
          /\ BagCardinality(workers) = worker
          /\ queue = <<>>
          /\ Len(taken) = Len(published)
          /\ published = SelectSeq(matchers, LAMBDA e : e.kind = "file"))

C18_Witness ==
  /\ run = "Ok"
  /\ worker = 8
  /\ Len(published) = 2
  /\ Len(taken) = 2
  /\ warnings # <<>>

----------------------------------------------------------------------------
(* The output path: dump_data and NcmdumpCli::get_output over std::path. *)

\* Path::file_stem on a file name given as its parts between the dots: the
\* whole name when it has no dot, or begins with its only dot; else the
\* name before the last dot
FileStem(nm) ==
  IF Len(nm) <= 1 \/ (Len(nm) = 2 /\ nm[1] = "")
  THEN nm
  ELSE SubSeq(nm, 1, Len(nm) - 1)

\* Path::with_extension: the extension is put after the name's file stem
WithExtension(p, e) == [dir |-> p.dir, name |-> FileStem(p.name) \o <<e>>]

\* parent.join(file_name).with_extension(ext), parent being the override
\* or path.parent() and file_name being path.file_stem()
GetOutputInputExtMutant(file_path, e, out) ==
  [dir |-> IF out = "None" THEN file_path.dir ELSE out, name |-> file_path.name]

get_output(file_path, e, out) ==
  LET parent == IF out = "None" THEN file_path.dir ELSE out
      file_name == FileStem(file_path.name)
  IN  WithExtension([dir |-> parent, name |-> file_name], e)

\* the first four bytes the decoder yields: what QmcDump makes of the
\* file's, or the container's audio payload as it is
DecodedHead == IF viaDecoder = "Qmc" THEN encrypt(0, rawHead) ELSE rawHead

\* input files of one stem under several extensions, a stem with a dot in
\* it, a name that begins with a dot, a name without extension
InNames ==
  { <<"a", "ncm">>, <<"a", "qmcflac">>, <<"a", "qmc3">>, <<"a", "flac">>, <<"a">>,
    <<"a", "b", "qmc0">>, <<"", "h", "ncm">>, <<"", "h">> }

RawHeads ==
  { QmcFlacMagic, QmcMp3Magic \o <<0>>, QmcMp3Magic \o <<200>>,
    FlacMagic, Id3Magic \o <<4>>, Id3Magic \o <<0>>, <<1, 2, 3, 4>> }

InitPath ==
  /\ pathProg \in {"bin", "cli"}
  /\ inPath \in [dir : {"", "in"}, name : InNames]
  /\ cmdOutput \in {"None", "out"}
  /\ viaDecoder \in {"Ncm", "Qmc"}
  /\ rawHead \in RawHeads
  /\ targetPath = [ret |-> "none", path |-> [dir |-> "", name |-> <<>>]]
  /\ EncIdle
  /\ QmcIdle
  /\ CliIdle
  /\ PipeIdle

\* dump_data: ext from ext_buffer, then target_path
BinTargetPath ==
  /\ pathProg = "bin"
  /\ targetPath.ret = "none"
  /\ targetPath' = IF MagicExt(DecodedHead) = "none"
                   THEN [targetPath EXCEPT !.ret = "Format"]
                   ELSE [ret |-> "Ok",
                         path |-> get_output(inPath, MagicExt(DecodedHead), cmdOutput)]
  /\ UNCHANGED <<pathProg, inPath, cmdOutput, viaDecoder, rawHead>>
  /\ UNCHANGED <<encVars, qmcVars, cliVars, pipeVars>>

\* NcmdumpCli::dump: ext from data[..4], then get_output
CliGetOutput ==
  /\ pathProg = "cli"
  /\ targetPath.ret = "none"
  /\ targetPath' = IF MagicExt(DecodedHead) = "none"
                   THEN [targetPath EXCEPT !.ret = "Format"]
                   ELSE [ret |-> "Ok",
                         path |-> get_output(inPath, MagicExt(DecodedHead), cmdOutput)]
  /\ UNCHANGED <<pathProg, inPath, cmdOutput, viaDecoder, rawHead>>
  /\ UNCHANGED <<encVars, qmcVars, cliVars, pipeVars>>

NextPath == BinTargetPath \/ CliGetOutput

SpecPath == InitPath /\ [][NextPath]_vars

\* C21: the output path is made of the output directory (the override,
\* else the input's directory), the input's file stem and the decoded
\* magic alone: its extension is flac when the 4 decoded bytes are
\* 66 4C 61 43, mp3 when they are 49 44 33 and any byte, whatever the
\* input's extension and the decoder; what comes before it is the stem,
\* short of the stem's own last dotted part when it has one.
C21_OutputPath ==
  targetPath.ret # "none" =>
    LET d == DecodedHead
        isFlac == d = <<102, 76, 97, 67>>
        isMp3 == SubSeq(d, 1, 3) = <<73, 68, 51>>
        stem == IF Len(inPath.name) = 1 \/ inPath.name = <<"", "h">>
                THEN inPath.name
                ELSE SubSeq(inPath.name, 1, Len(inPath.name) - 1)
        base == IF stem \in {<<"a", "b">>} THEN <<"a">> ELSE stem
    IN  IF ~isFlac /\ ~isMp3
        THEN targetPath.ret = "Format"
        ELSE /\ targetPath.ret = "Ok"
             /\ targetPath.path.dir = (IF cmdOutput = "None" THEN inPath.dir ELSE cmdOutput)
             /\ targetPath.path.name = base \o <<IF isFlac THEN "flac" ELSE "mp3">>

C21_Witness ==
  /\ pathProg = "bin"
  /\ inPath = [dir |-> "in", name |-> <<"a", "flac">>]
  /\ cmdOutput = "None"
  /\ viaDecoder = "Qmc"
  /\ rawHead = QmcMp3Magic \o <<200>>
  /\ targetPath = [ret |-> "Ok", path |-> [dir |-> "in", name |-> <<"a", "mp3">>]]

----------------------------------------------------------------------------
(* SpecQmc: the cursor and the reader's position. *)

\* C22: after any sequence of reads and seeks on a decoder made by
\* from_reader over a reader at offset 0, the cursor equals the reader's
\* absolute position; so every byte a read returns for stream position p is
\* the input byte at p XORed with the key byte of p.
C22_CursorTracksReader ==
  /\ [](cursor = rPos)
  /\ [][ReadStep =>
          \A i \in 1..ret'.val :
            buf'[i] = Xor(InputByte(rPos + i - 1), map_l(rPos + i - 1))]_vars

C22_Witness ==
  /\ nOps = 4
  /\ rLen = LongLen
  /\ rPat = <<0, 1, 2, 3>>
  /\ ret = [op |-> "read", ok |-> TRUE, val |-> 2]
  /\ start = Fold + 1
  /\ cursor = Fold + 3
  /\ rPos = Fold + 3
  /\ SubSeq(buf, 1, 2) = <<Xor(InputByte(Fold + 1), map_l(Fold + 1)), Xor(InputByte(Fold + 2), map_l(Fold + 2))>>

\* C23: a read that returns n bytes into a buffer of length m >= n changes
\* only the first n bytes of the buffer; the bytes at n..m-1 stay as the
\* caller left them (a read returning 0 leaves the whole buffer as it was).
C23_TailUntouched ==
  [][ReadStep =>
      \A i \in (ret'.val + 1)..Len(buf) : buf'[i] = buf[i]]_vars

\* a step in which the reader's read or seek returned an error
FailStep == nOps' = nOps + 1 /\ ~ret'.ok

\* C24: when the reader's read or seek returns an error, the decoder returns
\* the error and its cursor (and the reader's position) stay as they were,
\* so the next successful read returns the stream from the reader's absolute
\* offset XORed with the key bytes of that offset.
C24_ErrorKeepsCursor ==
  /\ [][FailStep => (cursor' = cursor /\ rPos' = rPos /\ cursor' = rPos')]_vars
  /\ [][(~ret.ok /\ ReadStep) =>
          /\ cursor' = rPos'
          /\ \A i \in 1..ret'.val :
               buf'[i] = Xor(InputByte(rPos + i - 1), map_l(rPos + i - 1))]_vars

C24_Witness ==
  /\ nOps = 3
  /\ ret = [op |-> "read", ok |-> FALSE, val |-> 0]
  /\ rLen = LongLen
  /\ start = Fold - 1
  /\ cursor = Fold + 1
  /\ rPos = Fold + 1

----------------------------------------------------------------------------
(* SpecQmcData: QmcDump::get_data over a fresh decoder. *)

\* let mut buffer = [0; BUFFER_SIZE], cut down to the buffers of the model;
\* the streams are those the loop can consume within MaxOps reads
InitQmcData ==
  /\ \E s \in QmcStreams : rPat = s.pat /\ rLen = s.len /\ s.len < MaxOps
  /\ rPos = 0
  /\ cursor = 0
  /\ buf \in { [i \in 1..m |-> 0] : m \in 1..MaxBuf }
  /\ ret = [op |-> "new", ok |-> TRUE, val |-> 0]
  /\ start = 0
  /\ output = <<>>
  /\ nOps = 0
  /\ EncIdle
  /\ CliIdle
  /\ PipeIdle
  /\ PathIdle

\* the loop of get_data is about to call self.read: at entry, or after a
\* read that returned Ok(size) with size > 0
GetDataLooping == ret.op = "new" \/ (ret.op = "read" /\ ret.ok /\ ret.val > 0)

\* while let Ok(size) = self.read(&mut buffer), the read returning Ok;
\* output.write_all(&buffer[..size]) is Read's output'
GetDataRead == GetDataLooping /\ Read

\* self.read(&mut buffer) returning Err
GetDataReadFail == GetDataLooping /\ ReadFail

\* Ok(output): after `break` on size == 0, and after the `while let` pattern
\* did not match because the read returned Err
GetDataReturn ==
  /\ ret.op = "read"
  /\ ~ret.ok \/ ret.val = 0
  /\ ret' = [op |-> "get_data", ok |-> TRUE, val |-> Len(output)]
  /\ UNCHANGED <<rPat, rLen, rPos, cursor, buf, start, output, nOps>>
  /\ UNCHANGED <<encVars, cliVars, pipeVars, pathVars>>

NextQmcData == GetDataRead \/ GetDataReadFail \/ GetDataReturn

SpecQmcData == InitQmcData /\ [][NextQmcData]_vars

\* C25: get_data returns Ok only with the whole decoded stream; when the
\* reader fails before the end of the stream, get_data returns an error and
\* not Ok with a prefix of the stream.
C25_GetDataComplete ==
  (ret.op = "get_data" /\ ret.ok) => output = encrypt(0, StreamSlice(0, rLen))

----------------------------------------------------------------------------
(* SpecCli: the sniffer against the check of the decoded magic. *)

\* C26: every input the sniffer classifies Qmc passes the check of the
\* decoded magic, as flac for the head A5 06 B7 89 and as mp3 for the head
\* 8A 0E E5, so no format error arises once a QmcDump decodes the item.
C26_QmcPassesMagic ==
  (format = "Qmc" /\ decoder = "Qmc") =>
    /\ result.err \notin {"Format", "InvalidFormat"}
    /\ ext # "none" =>
         ext = (IF SubSeq(item.bytes, 1, 4) = QmcFlacMagic THEN "flac" ELSE "mp3")

----------------------------------------------------------------------------
(* SpecPipe: the two counters against each other. *)

\* C27: in every state of a run the bytes completed are at most the
\* expected total: when the producer sends an item its size is already in
\* the expected total, and a worker adds at most the size of the item it is
\* reading to the bytes completed.
C27_PositionWithinLength ==
  /\ [](position <= length)
  /\ [][Len(published') > Len(published) => length >= SumSizes(published')]_vars
  /\ [][position' > position =>
          \E t \in BagToSet(workers) :
            /\ t.pc = "read"
            /\ position' - position <= published[t.msg].size]_vars

C27_Witness ==
  /\ main = "join"
  /\ producer.pc = "send"
  /\ Len(published) = 1
  /\ published[1].size = 6
  /\ length = 13
  /\ position = 2

----------------------------------------------------------------------------
(* SpecCli: what a failed item leaves behind. *)

\* C28: when an item fails at any step of dump_data (the magic check, the
\* path, the exists check, a read error while decoding, the tag), no output
\* file has been created for it and an output file that was there has been
\* neither truncated nor changed, with the overwrite flag set or not.
C28_FailureLeavesFiles ==
  (prog = "bin" /\ pc = "done" /\ result.err # "none") => fs = fs0

====
